---- MODULE Spec2Model ----
(***************************************************************************)
(* Model of src/src/App.tsx: the useAllMatches hook (ingestion of the four *)
(* league documents, the 60-second status refresher, teardown) and the     *)
(* derived views of App (filtered, teamMatches, groupedMatches), which are  *)
(* functions of the collection and of the filter state handed to them.     *)
(*                                                                         *)
(* Instants are milliseconds counted from EpochOrigin, the civil instant   *)
(* 2025-01-01T00:00:00+07:00, so that they fit the model checker's         *)
(* integers.  A Date is a record [valid, time]; an Invalid Date has        *)
(* valid = FALSE and every relational comparison with it is false.         *)
(***************************************************************************)
EXTENDS Integers, Sequences, FiniteSets, TLC

\* matches, loading, error: the three useState cells of useAllMatches
\* cancelled, timer:         the flag and the interval of its effect
\* mounted:                  the effect has run
\* now:                      the instant load() captured before its await
\* clock:                    the wall clock as last observed by new Date()
\* entries:                  the four promises handed to Promise.all
\* selectedLeagues, leagueStatusFilters, leagueSearchQueries, leaguePages:
\*                           the useState cells of App of these names
VARIABLES matches, loading, error, cancelled, timer, mounted,
          now, clock, entries,
          selectedLeagues, leagueStatusFilters, leagueSearchQueries,
          leaguePages

hookVars == <<matches, loading, error, cancelled, timer, mounted,
              now, clock, entries>>

appVars == <<selectedLeagues, leagueStatusFilters, leagueSearchQueries,
             leaguePages>>

vars == <<hookVars, appVars>>

(* ------------------------------ bounds --------------------------------- *)

\* largest number of raw matches the four documents serve in total
MaxMatches == 2

(* ------------------------- types and constants ------------------------- *)

\* Object.keys(PUBLIC_FILES): the league keys in insertion order
LeagueKeys == <<"Premier League", "La Liga", "Bundesliga", "Serie A">>

Leagues == {LeagueKeys[i] : i \in DOMAIN LeagueKeys}

Undefined == "undefined"

\* a JS number that is a natural, and the JS number NaN
Num(n) == [nan |-> FALSE, n |-> n]
NaN == [nan |-> TRUE, n |-> 0]

\* new Date(ms) and an Invalid Date
DateOf(ms) == [valid |-> TRUE, time |-> ms]
InvalidDate == [valid |-> FALSE, time |-> 0]

\* Date relational operators: both operands go through valueOf(); a NaN
\* operand makes the comparison false
DateLt(a, b) == a.valid /\ b.valid /\ a.time < b.time
DateGe(a, b) == a.valid /\ b.valid /\ a.time >= b.time

(* ---------------------------- parseWIBDate ----------------------------- *)

IsLeap(y) == (y % 4 = 0 /\ y % 100 # 0) \/ y % 400 = 0

DaysInMonth(y, m) ==
    IF m = 2 THEN (IF IsLeap(y) THEN 29 ELSE 28)
    ELSE IF m \in {4, 6, 9, 11} THEN 30 ELSE 31

RECURSIVE DaysBeforeMonth(_, _)
DaysBeforeMonth(y, m) ==
    IF m <= 1 THEN 0 ELSE DaysBeforeMonth(y, m - 1) + DaysInMonth(y, m - 1)

\* days from 0001-01-01 to y-m-d in the proleptic Gregorian calendar
DaysFromCivil(y, m, d) ==
    365 * (y - 1) + ((y - 1) \div 4) - ((y - 1) \div 100) + ((y - 1) \div 400)
      + DaysBeforeMonth(y, m) + (d - 1)

EpochOriginDays == DaysFromCivil(2025, 1, 1)

\* the string is valid ISO "YYYY-MM-DDTHH:mm:00+07:00" after padStart
IsoValid(y, m, d, hh, mm) ==
    /\ ~y.nan /\ ~m.nan /\ ~d.nan /\ ~hh.nan /\ ~mm.nan
    /\ y.n <= 9999
    /\ m.n >= 1 /\ m.n <= 12
    /\ d.n >= 1 /\ d.n <= DaysInMonth(y.n, m.n)
    /\ (hh.n <= 23 \/ (hh.n = 24 /\ mm.n = 0))
    /\ mm.n <= 59

\* new Date(iso) for a valid iso string, in ms from EpochOrigin (the +07:00
\* offset of the string and of EpochOrigin cancel)
IsoTime(y, m, d, hh, mm) ==
    ((DaysFromCivil(y, m, d) - EpochOriginDays) * 24 * 60 + hh * 60 + mm)
      * 60 * 1000

\* dateStr and timeStr are given as the sequences of JS numbers that
\* split('/').map(Number) and split(':').map(Number) produce.  A missing
\* field destructures to undefined and y.toString() throws a TypeError.
parseWIBDate(dateStr, timeStr) ==
    IF Len(dateStr) < 3 \/ Len(timeStr) < 2
    THEN [throws |-> TRUE, date |-> InvalidDate]
    ELSE LET d == dateStr[1]
             m == dateStr[2]
             y == dateStr[3]
             hh == timeStr[1]
             mm == timeStr[2]
         IN  IF IsoValid(y, m, d, hh, mm)
             THEN [throws |-> FALSE,
                   date |-> DateOf(IsoTime(y.n, m.n, d.n, hh.n, mm.n))]
             ELSE [throws |-> FALSE, date |-> InvalidDate]

(* --------------------------- calculateStatus --------------------------- *)

matchDurationMs == 110 * 60 * 1000

\* calculateStatus with the instant of kickoff itself still UPCOMING
calculateStatus_kickoffUpcoming(n, kickoff) ==
    IF ~DateGe(n, kickoff) \/ n.time = kickoff.time THEN "UPCOMING"
    ELSE IF DateGe(n, kickoff)
            /\ DateLt(n, DateOf(kickoff.time + matchDurationMs))
         THEN "LIVE"
         ELSE "FINISHED"

\* calculateStatus with the comparison against the end of the window turned
calculateStatus_windowTurned(n, kickoff) ==
    IF DateLt(n, kickoff) THEN "UPCOMING"
    ELSE IF DateGe(n, kickoff)
            /\ DateGe(n, DateOf(kickoff.time + matchDurationMs))
         THEN "LIVE"
         ELSE "FINISHED"

calculateStatus(n, kickoff) ==
    IF DateLt(n, kickoff) THEN "UPCOMING"
    ELSE IF DateGe(n, kickoff)
            /\ DateLt(n, DateOf(kickoff.time + matchDurationMs))
         THEN "LIVE"
         ELSE "FINISHED"

(* ------------------------ the served documents ------------------------- *)

Team(i, nm) == [id |-> i, name |-> nm]

\* home and away teams of the raw matches a league's document may hold
Fixtures(league) ==
    IF league = "Premier League"
    THEN { [home |-> Team(1, "Arsenal"), away |-> Team(2, "Chelsea")] }
    ELSE IF league = "La Liga"
    THEN { [home |-> Team(1, "Real Madrid"), away |-> Team(2, "Barcelona")] }
    ELSE IF league = "Bundesliga"
    THEN { [home |-> Team(1, "Bayern"), away |-> Team(2, "Arsenal")] }
    ELSE { [home |-> Team(1, "Juventus"), away |-> Team(2, "Real Madrid")] }

\* date and time fields of a raw match: "02/01/2025" "20:00", "02/01/2025"
\* "21:50", "32/13/2025" "20:00" (no such day or month) and "02/01" "20:00"
\* (no year field)
Stamps ==
    { [date |-> <<Num(2), Num(1), Num(2025)>>, time |-> <<Num(20), Num(0)>>],
      [date |-> <<Num(2), Num(1), Num(2025)>>, time |-> <<Num(21), Num(50)>>],
      [date |-> <<Num(32), Num(13), Num(2025)>>, time |-> <<Num(20), Num(0)>>],
      [date |-> <<Num(2), Num(1)>>, time |-> <<Num(20), Num(0)>>] }

\* RawMatch without its id
RawFields(league) ==
    { [date |-> s.date, time |-> s.time, teams |-> f] :
        s \in Stamps, f \in Fixtures(league) }

RawMatchOf(i, r) ==
    [id |-> i, date |-> r.date, time |-> r.time, teams |-> r.teams]

\* the matches arrays of at most n raw matches, ids numbered in source order
RawLists(league, n) ==
    UNION { { [i \in 1..k |-> RawMatchOf(i, f[i])] :
                f \in [1..k -> RawFields(league)] } : k \in 0..n }

\* a response: not ok, ok with a body that has no matches array, or ok with
\* a RawLeague body
Responses(league, n) ==
    { [ok |-> FALSE, shape |-> FALSE, matches |-> <<>>],
      [ok |-> TRUE, shape |-> FALSE, matches |-> <<>>] }
      \cup { [ok |-> TRUE, shape |-> TRUE, matches |-> l] :
               l \in RawLists(league, n) }

\* the responses each league's fetch may complete with
Served == [league \in Leagues |-> Responses(league, MaxMatches)]

\* the kickoff instants of the well-formed stamps
ValidKickoffs ==
    { parseWIBDate(s.date, s.time).date.time :
        s \in { t \in Stamps : /\ ~parseWIBDate(t.date, t.time).throws
                               /\ parseWIBDate(t.date, t.time).date.valid } }

\* the instants new Date() is observed at: around the boundaries of the
\* window of each kickoff
NowValues ==
    { k + o : k \in ValidKickoffs,
              o \in {0 - 1, 0, matchDurationMs - 1, matchDurationMs} }

\* the period of setInterval, in ms
TickPeriodMs == 60 * 1000

(* ------------------------------- the hook ------------------------------ *)

Pending == [state |-> "pending", list |-> <<>>, message |-> Undefined]
Fulfilled(l) == [state |-> "fulfilled", list |-> l, message |-> Undefined]
Rejected(msg) == [state |-> "rejected", list |-> <<>>, message |-> msg]

\* MapMatch with new Date() read for each match, a millisecond later for
\* each further match of the document
MapMatch_nowPerMatch(m, league, n) ==
    LET kickoff == parseWIBDate(m.date, m.time).date
    IN  [id |-> m.id, date |-> m.date, time |-> m.time, teams |-> m.teams,
         league |-> league, kickoff |-> kickoff,
         status |-> calculateStatus(DateOf(n.time + m.id - 1), kickoff)]

\* json.matches.map((m) => ({...m, league, kickoff, status}))
MapMatch(m, league, n) ==
    LET kickoff == parseWIBDate(m.date, m.time).date
    IN  [id |-> m.id, date |-> m.date, time |-> m.time, teams |-> m.teams,
         league |-> league, kickoff |-> kickoff,
         status |-> calculateStatus(n, kickoff)]

\* the promise of one league: the async callback of the map over the keys
LeaguePromise(league, res, n) ==
    IF ~res.ok THEN Rejected("Gagal mengambil data " \o league)
    ELSE IF ~res.shape THEN Rejected("TypeError")
    ELSE IF \E i \in DOMAIN res.matches :
              parseWIBDate(res.matches[i].date, res.matches[i].time).throws
         THEN Rejected("TypeError")
         ELSE Fulfilled([i \in DOMAIN res.matches |->
                            MapMatch(res.matches[i], league, n)])

RECURSIVE FlatFrom(_, _)
FlatFrom(e, i) ==
    IF i > Len(LeagueKeys) THEN <<>>
    ELSE e[LeagueKeys[i]].list \o FlatFrom(e, i + 1)

\* Flat over the league keys in alphabetical order
Flat_alphabetical(e) ==
    e["Bundesliga"].list \o e["La Liga"].list
      \o e["Premier League"].list \o e["Serie A"].list

\* entries.flat(): entries is in the order of Object.keys(PUBLIC_FILES)
Flat(e) == FlatFrom(e, 1)

AnyRejected(e) == \E l \in Leagues : e[l].state = "rejected"
AllFulfilled(e) == \A l \in Leagues : e[l].state = "fulfilled"

\* raw matches received so far
Received(e) == Len(Flat(e))

\* Refresh that keeps only the matches that are not over
Refresh_dropsFinished(prev, n) ==
    LET NotOver(m) == calculateStatus(n, m.kickoff) # "FINISHED"
        kept == SelectSeq(prev, NotOver)
    IN  [i \in DOMAIN kept |->
            [kept[i] EXCEPT !.status = calculateStatus(n, kept[i].kickoff)]]

\* prev.map((m) => ({...m, status: calculateStatus(now, m.kickoff)}))
Refresh(prev, n) ==
    [i \in DOMAIN prev |->
        [prev[i] EXCEPT !.status = calculateStatus(n, prev[i].kickoff)]]

\* the useState cells of App at construction.  A Record<string, ..> cell is
\* held as a function on the league keys: every read of the code is
\* record[leagueName] || default, so an absent key and a key holding the
\* default are the same value
InitApp ==
    /\ selectedLeagues = {"ALL"}
    /\ leagueStatusFilters = [l \in Leagues |-> "ALL"]
    /\ leagueSearchQueries = [l \in Leagues |-> <<>>]
    /\ leaguePages = [l \in Leagues |-> 1]

Init ==
    /\ matches = <<>>
    /\ loading = TRUE
    /\ error = Undefined
    /\ cancelled = FALSE
    /\ timer = FALSE
    /\ mounted = FALSE
    /\ now = DateOf(0)
    /\ clock = 0
    /\ entries = [l \in Leagues |-> Pending]
    /\ InitApp

\* the effect of useAllMatches: load() runs up to its await, then setInterval
Mount(t) ==
    /\ ~mounted
    /\ mounted' = TRUE
    /\ now' = DateOf(t)
    /\ clock' = t
    /\ timer' = TRUE
    /\ UNCHANGED <<matches, loading, error, cancelled, entries>>
    /\ UNCHANGED appVars

\* once Promise.all has rejected nothing refers to the values of the four
\* promises any more: only their states are kept
Forget(e) ==
    [l \in Leagues |->
        IF e[l].state = "fulfilled" THEN Fulfilled(<<>>)
        ELSE IF e[l].state = "rejected" THEN Rejected(Undefined)
        ELSE e[l]]

\* LoadResolved without the test of cancelled
LoadResolved_noCancelCheck(e) ==
    /\ matches' = Flat(e)
    /\ loading' = FALSE
    /\ UNCHANGED error

\* LoadResolved without the finally block
LoadResolved_keepsLoading(e) ==
    IF cancelled
    THEN UNCHANGED <<matches, loading, error>>
    ELSE /\ matches' = Flat(e)
         /\ UNCHANGED <<loading, error>>

\* load() after its await resolved: the commit, then finally
LoadResolved(e) ==
    IF cancelled
    THEN UNCHANGED <<matches, loading, error>>
    ELSE /\ matches' = Flat(e)
         /\ loading' = FALSE
         /\ UNCHANGED error

\* LoadRejected that shows what the other fetches have delivered so far
LoadRejected_partial(p) ==
    IF cancelled
    THEN UNCHANGED <<matches, loading, error>>
    ELSE /\ error' = p.message
         /\ loading' = FALSE
         /\ matches' = Flat(entries)

\* load() after its await rejected with the reason of promise p: catch,
\* then finally
LoadRejected(p) ==
    IF cancelled
    THEN UNCHANGED <<matches, loading, error>>
    ELSE /\ error' = p.message
         /\ loading' = FALSE
         /\ UNCHANGED matches

\* the fetch of one league completes with response res; when this settles
\* Promise.all, the rest of load() runs
FetchComplete(league, res) ==
    /\ mounted
    /\ entries[league].state = "pending"
    /\ Received(entries) + Len(res.matches) <= MaxMatches
    /\ LET p == LeaguePromise(league, res, now)
           e == [entries EXCEPT ![league] = p]
       IN  IF AnyRejected(entries)
           THEN /\ entries' = Forget(e)
                /\ UNCHANGED <<matches, loading, error>>
           ELSE IF p.state = "rejected"
           THEN /\ entries' = Forget(e)
                /\ LoadRejected(p)
           ELSE IF AllFulfilled(e)
           THEN /\ entries' = e
                /\ LoadResolved(e)
           ELSE /\ entries' = e
                /\ UNCHANGED <<matches, loading, error>>
    /\ UNCHANGED <<cancelled, timer, mounted, now, clock>>
    /\ UNCHANGED appVars

\* the setInterval callback computing the statuses at the instant of the
\* load instead of the instant of the tick
Tick_atLoadInstant(t) ==
    /\ timer
    /\ t >= clock + TickPeriodMs
    /\ matches' = Refresh(matches, now)
    /\ clock' = t
    /\ UNCHANGED <<loading, error, cancelled, timer, mounted, now, entries>>
    /\ UNCHANGED appVars

\* the setInterval callback, one period or more after the last observation
\* of the clock
Tick(t) ==
    /\ timer
    /\ t >= clock + TickPeriodMs
    /\ matches' = Refresh(matches, DateOf(t))
    /\ clock' = t
    /\ UNCHANGED <<loading, error, cancelled, timer, mounted, now, entries>>
    /\ UNCHANGED appVars

\* the cleanup of the effect
Unmount ==
    /\ mounted
    /\ ~cancelled
    /\ cancelled' = TRUE
    /\ timer' = FALSE
    /\ UNCHANGED <<matches, loading, error, mounted, now, clock, entries>>
    /\ UNCHANGED appVars

Next ==
    \/ \E t \in NowValues : Mount(t)
    \/ \E l \in Leagues : \E r \in Served[l] : FetchComplete(l, r)
    \/ \E t \in NowValues : Tick(t)
    \/ Unmount

Spec == Init /\ [][Next]_vars

\* the latest of the instants above
LastNowValue == CHOOSE t \in NowValues : \A u \in NowValues : u <= t

\* the instants of the clock that keeps advancing: one more period after the
\* end of the last window
LiveNowValues == NowValues \cup {LastNowValue + TickPeriodMs}

NextLive ==
    \/ \E t \in NowValues : Mount(t)
    \/ \E l \in Leagues : \E r \in Served[l] : FetchComplete(l, r)
    \/ \E t \in LiveNowValues : Tick(t)
    \/ Unmount

\* setInterval calls the callback every period until clearInterval: a tick
\* that stays possible is taken
SpecLive ==
    /\ Init
    /\ [][NextLive]_vars
    /\ WF_vars(\E t \in LiveNowValues : Tick(t))

(* --------------------------- the derived views ------------------------- *)

\* the comparator of the two sorts: only move finished matches to bottom.
\* A difference of getTime() that is NaN is taken as 0 by Array.prototype.sort
FinishedLastCmp(a, b) ==
    IF a.status = "FINISHED" /\ b.status # "FINISHED" THEN 1
    ELSE IF b.status = "FINISHED" /\ a.status # "FINISHED" THEN 0 - 1
    ELSE IF a.kickoff.valid /\ b.kickoff.valid
         THEN a.kickoff.time - b.kickoff.time
         ELSE 0

\* Array.prototype.sort is stable: x goes after every element that does not
\* compare greater than it
RECURSIVE SortInsert(_, _)
SortInsert(sorted, x) ==
    IF sorted = <<>> THEN <<x>>
    ELSE LET last == sorted[Len(sorted)]
         IN  IF FinishedLastCmp(last, x) > 0
             THEN SortInsert(SubSeq(sorted, 1, Len(sorted) - 1), x) \o <<last>>
             ELSE sorted \o <<x>>

\* the elements of s inserted one after the other; sorted holds the first
\* Len(sorted) of them
RECURSIVE SortFrom(_, _)
SortFrom(sorted, s) ==
    IF Len(sorted) = Len(s) THEN sorted
    ELSE SortFrom(SortInsert(sorted, s[Len(sorted) + 1]), s)

SortFinishedLast(s) == SortFrom(<<>>, s)

\* the values selectedLeagues takes: {ALL} or a non-empty set of leagues
LeagueSelections == {{"ALL"}} \cup ((SUBSET Leagues) \ {{}})

\* App.filtered for the collection ms and the league selection sel
filtered(ms, sel) ==
    LET Keep(m) == IF "ALL" \in sel THEN TRUE ELSE m.league \in sel
    IN  SortFinishedLast(SelectSeq(ms, Keep))

\* App.allTeams, as the set of the names (their display order left out)
allTeams(ms) ==
    UNION { {ms[i].teams.home.name, ms[i].teams.away.name} : i \in DOMAIN ms }

\* App.teamMatches for the collection ms and the selected team
teamMatches(ms, team) ==
    IF team = "" THEN <<>>
    ELSE LET Plays(m) == m.teams.home.name = team \/ m.teams.away.name = team
             sorted == SortFinishedLast(SelectSeq(ms, Plays))
         IN  SubSeq(sorted, 1, IF Len(sorted) < 4 THEN Len(sorted) ELSE 4)

\* the push loop of App.groupedMatches: the group of one league
GroupOf(filt, league) ==
    LET In(m) == m.league = league
    IN  SelectSeq(filt, In)

RECURSIVE GroupsFrom(_, _)
GroupsFrom(filt, i) ==
    IF i > Len(LeagueKeys) THEN <<>>
    ELSE LET g == GroupOf(filt, LeagueKeys[i])
         IN  (IF Len(g) > 0 THEN << <<LeagueKeys[i], g>> >> ELSE <<>>)
               \o GroupsFrom(filt, i + 1)

\* groupedMatches without the filter on the length of the groups
groupedMatches_keepsEmpty(filt) ==
    [i \in DOMAIN LeagueKeys |-> <<LeagueKeys[i], GroupOf(filt, LeagueKeys[i])>>]

\* App.groupedMatches: the non-empty groups as [leagueName, matches] pairs
groupedMatches(filt) == GroupsFrom(filt, 1)

(* ------------------------------- strings ------------------------------- *)

\* a string value of the code, where its characters matter, is the sequence
\* of its characters; Chars gives the characters of a team name
Chars(name) ==
    CASE name = "Real Madrid" ->
           <<"R", "e", "a", "l", " ", "M", "a", "d", "r", "i", "d">>
      [] name = "Barcelona" -> <<"B", "a", "r", "c", "e", "l", "o", "n", "a">>
      [] name = "Sevilla" -> <<"S", "e", "v", "i", "l", "l", "a">>
      [] name = "Juventus" -> <<"J", "u", "v", "e", "n", "t", "u", "s">>
      [] name = "Roma" -> <<"R", "o", "m", "a">>
      [] name = "Arsenal" -> <<"A", "r", "s", "e", "n", "a", "l">>
      [] name = "Chelsea" -> <<"C", "h", "e", "l", "s", "e", "a">>
      [] name = "Bayern" -> <<"B", "a", "y", "e", "r", "n">>

UpperCase ==
    <<"A", "B", "C", "D", "E", "F", "G", "H", "I", "J", "K", "L", "M",
      "N", "O", "P", "Q", "R", "S", "T", "U", "V", "W", "X", "Y", "Z">>

LowerCase ==
    <<"a", "b", "c", "d", "e", "f", "g", "h", "i", "j", "k", "l", "m",
      "n", "o", "p", "q", "r", "s", "t", "u", "v", "w", "x", "y", "z">>

\* String.prototype.toLowerCase
toLowerCase(str) ==
    [i \in DOMAIN str |->
        IF \E k \in DOMAIN UpperCase : UpperCase[k] = str[i]
        THEN LowerCase[CHOOSE k \in DOMAIN UpperCase : UpperCase[k] = str[i]]
        ELSE str[i]]

\* String.prototype.trim
RECURSIVE trimStart(_)
trimStart(str) ==
    IF str # <<>> /\ Head(str) = " " THEN trimStart(Tail(str)) ELSE str

RECURSIVE trimEnd(_)
trimEnd(str) ==
    IF str # <<>> /\ str[Len(str)] = " "
    THEN trimEnd(SubSeq(str, 1, Len(str) - 1))
    ELSE str

trim(str) == trimEnd(trimStart(str))

\* String.prototype.includes
includes(str, search) ==
    \E i \in 0..(Len(str) - Len(search)) :
        SubSeq(str, i + 1, i + Len(search)) = search

(* ------------------------- refinement and pages ------------------------ *)

MATCHES_PER_PAGE == 6

\* getFilteredLeagueMatches with the search text lower-cased but not trimmed
getFilteredLeagueMatches_untrimmed(leagueName, ms) ==
    LET statusFilter == leagueStatusFilters[leagueName]
        searchQuery == toLowerCase(leagueSearchQueries[leagueName])
        Passes(match) ==
            /\ ~(statusFilter = "LIVE" /\ match.status # "LIVE")
            /\ ~(statusFilter = "FINISHED" /\ match.status # "FINISHED")
            /\ searchQuery # <<>> =>
                 \/ includes(toLowerCase(Chars(match.teams.home.name)),
                             searchQuery)
                 \/ includes(toLowerCase(Chars(match.teams.away.name)),
                             searchQuery)
    IN  SelectSeq(ms, Passes)

\* getFilteredLeagueMatches(leagueName, ms): the status filter and the search
\* query of the league are read from the two state cells
getFilteredLeagueMatches(leagueName, ms) ==
    LET statusFilter == leagueStatusFilters[leagueName]
        searchQuery == toLowerCase(trim(leagueSearchQueries[leagueName]))
        Passes(match) ==
            /\ ~(statusFilter = "LIVE" /\ match.status # "LIVE")
            /\ ~(statusFilter = "FINISHED" /\ match.status # "FINISHED")
            /\ searchQuery # <<>> =>
                 \/ includes(toLowerCase(Chars(match.teams.home.name)),
                             searchQuery)
                 \/ includes(toLowerCase(Chars(match.teams.away.name)),
                             searchQuery)
    IN  SelectSeq(ms, Passes)

\* Math.ceil replaced by Math.floor
MathCeil_floor(n, d) == n \div d

\* Math.ceil(n / d) for naturals n and d > 0
MathCeil(n, d) == IF n % d = 0 THEN n \div d ELSE (n \div d) + 1

\* Array.prototype.slice(start, end) for 0 <= start <= end
slice(s, start, end) ==
    SubSeq(s, start + 1, IF end < Len(s) THEN end ELSE Len(s))

\* what the map over groupedMatches computes for one league section
filteredMatchesOf(leagueName) ==
    getFilteredLeagueMatches(
        leagueName, GroupOf(filtered(matches, selectedLeagues), leagueName))

currentPageOf(leagueName) == leaguePages[leagueName]

totalPagesOf(leagueName) ==
    MathCeil(Len(filteredMatchesOf(leagueName)), MATCHES_PER_PAGE)

displayMatchesOf(leagueName) ==
    LET startIndex == (currentPageOf(leagueName) - 1) * MATCHES_PER_PAGE
    IN  slice(filteredMatchesOf(leagueName), startIndex,
              startIndex + MATCHES_PER_PAGE)

\* the league has a section: the main content is rendered and the group of
\* the league is one that groupedMatches keeps, a group that is not empty
Displayed(leagueName) ==
    /\ ~loading
    /\ error = Undefined
    /\ Len(GroupOf(filtered(matches, selectedLeagues), leagueName)) > 0

\* the '...' entry of the page list
Ellipsis == 0

\* the pages i with a <= i <= b, in order
PagesFromTo(a, b) == [i \in 1..(b - a + 1) |-> a + i - 1]

\* getVisiblePages with the last pages shown only within 2 of the end
getVisiblePages_lateEnd(currentPage, totalPages) ==
    IF ~(totalPages > 7) THEN PagesFromTo(1, totalPages)
    ELSE IF currentPage <= 4
         THEN PagesFromTo(1, 5) \o <<Ellipsis, totalPages>>
    ELSE IF currentPage >= totalPages - 2
         THEN <<1, Ellipsis>> \o PagesFromTo(totalPages - 4, totalPages)
    ELSE <<1, Ellipsis>> \o PagesFromTo(currentPage - 1, currentPage + 1)
           \o <<Ellipsis, totalPages>>

\* Pagination.getVisiblePages
getVisiblePages(currentPage, totalPages) ==
    IF ~(totalPages > 7) THEN PagesFromTo(1, totalPages)
    ELSE IF currentPage <= 4
         THEN PagesFromTo(1, 5) \o <<Ellipsis, totalPages>>
    ELSE IF currentPage >= totalPages - 3
         THEN <<1, Ellipsis>> \o PagesFromTo(totalPages - 4, totalPages)
    ELSE <<1, Ellipsis>> \o PagesFromTo(currentPage - 1, currentPage + 1)
           \o <<Ellipsis, totalPages>>

\* the pages the enabled buttons of a rendered Pagination hand to
\* onPageChange
Clickable(currentPage, totalPages) ==
    IF totalPages <= 1 THEN {}
    ELSE ({ getVisiblePages(currentPage, totalPages)[i] :
              i \in DOMAIN getVisiblePages(currentPage, totalPages) }
            \ {Ellipsis})
         \cup (IF currentPage = 1 THEN {} ELSE {currentPage - 1})
         \cup (IF currentPage = totalPages THEN {} ELSE {currentPage + 1})

(* ------------------------------ App actions ---------------------------- *)

\* the effect left out: a change of a filter leaves the pages as they were
ResetPages_none == UNCHANGED leaguePages

\* the effect "reset pagination when filters change": setLeaguePages({})
ResetPages == leaguePages' = [l \in Leagues |-> 1]

\* the onClick of the "Semua Liga" button, then the effect
SelectAllLeagues ==
    /\ selectedLeagues' = {"ALL"}
    /\ ResetPages
    /\ UNCHANGED <<hookVars, leagueStatusFilters, leagueSearchQueries>>

\* ToggleLeague without the return to ALL when the last league is toggled
\* off
ToggleLeague_leavesEmpty(league) ==
    /\ selectedLeagues' =
         IF league \in selectedLeagues
         THEN selectedLeagues \ {league}
         ELSE (selectedLeagues \ {"ALL"}) \cup {league}
    /\ ResetPages
    /\ UNCHANGED <<hookVars, leagueStatusFilters, leagueSearchQueries>>

\* the onClick of the button of one league, then the effect
ToggleLeague(league) ==
    /\ selectedLeagues' =
         IF league \in selectedLeagues
         THEN (IF selectedLeagues \ {league} = {}
               THEN {"ALL"}
               ELSE selectedLeagues \ {league})
         ELSE (selectedLeagues \ {"ALL"}) \cup {league}
    /\ ResetPages
    /\ UNCHANGED <<hookVars, leagueStatusFilters, leagueSearchQueries>>

StatusFilters == {"ALL", "LIVE", "FINISHED"}

\* the onClick of a status filter button of a league section, then the
\* effect
SetStatusFilter(league, f) ==
    /\ Displayed(league)
    /\ leagueStatusFilters' = [leagueStatusFilters EXCEPT ![league] = f]
    /\ ResetPages
    /\ UNCHANGED <<hookVars, selectedLeagues, leagueSearchQueries>>

\* the texts typed into a search input: "", " " and " bAr "
SearchTexts == { <<>>, <<" ">>, <<" ", "b", "A", "r", " ">> }

\* the onChange of the search input of a league section, then the effect
SetSearchQuery(league, text) ==
    /\ Displayed(league)
    /\ leagueSearchQueries' = [leagueSearchQueries EXCEPT ![league] = text]
    /\ ResetPages
    /\ UNCHANGED <<hookVars, selectedLeagues, leagueStatusFilters>>

\* onPageChange of the Pagination of a league section, which is rendered
\* when the refined list is not empty
PageChange(league) ==
    /\ Displayed(league)
    /\ Len(filteredMatchesOf(league)) # 0
    /\ \E page \in Clickable(currentPageOf(league), totalPagesOf(league)) :
          leaguePages' = [leaguePages EXCEPT ![league] = page]
    /\ UNCHANGED <<hookVars, selectedLeagues, leagueStatusFilters,
                   leagueSearchQueries>>

(* ------------------------- the App on loaded data ---------------------- *)

\* date and time fields "02/01/2025" "20:00" and "02/01/2025" "21:00"
Stamp20 == [date |-> <<Num(2), Num(1), Num(2025)>>, time |-> <<Num(20), Num(0)>>]
Stamp21 == [date |-> <<Num(2), Num(1), Num(2025)>>, time |-> <<Num(21), Num(0)>>]

RawMatch(i, stamp, h, a) ==
    [id |-> i, date |-> stamp.date, time |-> stamp.time,
     teams |-> [home |-> h, away |-> a]]

\* the four documents served to the App: eight matches of La Liga, the
\* latest first in the document, two of Serie A, none of the other two.
\* Real Madrid plays in six matches of the two leagues, Barcelona in seven
\* of La Liga
AppDocument(league) ==
    IF league = "La Liga"
    THEN [ok |-> TRUE, shape |-> TRUE,
          matches |->
            << RawMatch(1, Stamp21, Team(1, "Real Madrid"), Team(2, "Barcelona")),
               RawMatch(2, Stamp20, Team(2, "Barcelona"), Team(3, "Sevilla")),
               RawMatch(3, Stamp20, Team(3, "Sevilla"), Team(1, "Real Madrid")),
               RawMatch(4, Stamp20, Team(1, "Real Madrid"), Team(2, "Barcelona")),
               RawMatch(5, Stamp20, Team(2, "Barcelona"), Team(1, "Real Madrid")),
               RawMatch(6, Stamp20, Team(3, "Sevilla"), Team(2, "Barcelona")),
               RawMatch(7, Stamp20, Team(1, "Real Madrid"), Team(2, "Barcelona")),
               RawMatch(8, Stamp20, Team(2, "Barcelona"), Team(3, "Sevilla")) >>]
    ELSE IF league = "Serie A"
    THEN [ok |-> TRUE, shape |-> TRUE,
          matches |->
            << RawMatch(1, Stamp21, Team(1, "Juventus"), Team(2, "Roma")),
               RawMatch(2, Stamp20, Team(1, "Juventus"), Team(3, "Real Madrid")) >>]
    ELSE [ok |-> TRUE, shape |-> TRUE, matches |-> <<>>]

AppKickoffs ==
    { parseWIBDate(st.date, st.time).date.time : st \in {Stamp20, Stamp21} }

\* the instant the App is mounted at: a minute before the first kickoff
AppMountTime == parseWIBDate(Stamp20.date, Stamp20.time).date.time - TickPeriodMs

\* the instants new Date() is observed at by the loaded App: at the mount, at
\* each kickoff, and at the end of each window
AppNowValues ==
    { k + o : k \in AppKickoffs, o \in {0, matchDurationMs} }
      \cup { AppMountTime }

\* the state after the effect ran at instant t and the four fetches
\* completed with the documents docs
LoadedWith(docs, t) ==
    /\ mounted = TRUE
    /\ timer = TRUE
    /\ cancelled = FALSE
    /\ now = DateOf(t)
    /\ clock = t
    /\ entries = [l \in Leagues |-> LeaguePromise(l, docs[l], DateOf(t))]
    /\ matches = Flat([l \in Leagues |-> LeaguePromise(l, docs[l], DateOf(t))])
    /\ loading = FALSE
    /\ error = Undefined
    /\ InitApp

(* --------------------------- arrays as objects ------------------------- *)

\* an array of matches with the object that holds it: the array of the state
\* cell matches, or an array the derivation has allocated
StateArray(ms) == [ref |-> "matches", items |-> ms]

FreshArray(items) == [ref |-> "fresh", items |-> items]

\* Array.prototype.sort orders its receiver in place and returns it
sortArray(a) == [ref |-> a.ref, items |-> SortFinishedLast(a.items)]

\* Array.prototype.slice allocates the array it returns
sliceArray(a, start, end) == FreshArray(slice(a.items, start, end))

\* App.filtered with the league filter applied to the array itself, so that
\* sort orders the array it was given
filteredArray_inPlace(a, sel) ==
    LET Keep(m) == IF "ALL" \in sel THEN TRUE ELSE m.league \in sel
    IN  sortArray([ref |-> a.ref, items |-> SelectSeq(a.items, Keep)])

\* App.filtered on array objects: Array.prototype.filter allocates the array
\* that sort then orders
filteredArray(a, sel) ==
    LET Keep(m) == IF "ALL" \in sel THEN TRUE ELSE m.league \in sel
    IN  sortArray(FreshArray(SelectSeq(a.items, Keep)))

\* App.teamMatches on array objects: [] or filter, sort, slice
teamMatchesArray(a, team) ==
    IF team = "" THEN FreshArray(<<>>)
    ELSE LET Plays(m) == m.teams.home.name = team \/ m.teams.away.name = team
         IN  sliceArray(sortArray(FreshArray(SelectSeq(a.items, Plays))), 0, 4)

\* the array groupedMatches pushes the matches of one league into
groupArray(f, league) == FreshArray(GroupOf(f.items, league))

\* getFilteredLeagueMatches on array objects: one Array.prototype.filter
filteredLeagueArray(league, g) ==
    FreshArray(getFilteredLeagueMatches(league, g.items))

\* the elements of the array of the state cell once the calls that returned
\* the array a are done
HeldAfter(ms, a) == IF a.ref = "matches" THEN a.items ELSE ms

\* the elements of the array of the state cell once every view has been
\* derived for the selected team
MatchesAfterViews(ms, team) ==
    LET f == filteredArray(StateArray(ms), selectedLeagues)
        m1 == HeldAfter(ms, f)
        m2 == HeldAfter(m1, teamMatchesArray(StateArray(m1), team))
        Sections(m, i) ==
            LET r == filteredLeagueArray(LeagueKeys[i], groupArray(f, LeagueKeys[i]))
                d == sliceArray(r, (currentPageOf(LeagueKeys[i]) - 1) * MATCHES_PER_PAGE,
                                currentPageOf(LeagueKeys[i]) * MATCHES_PER_PAGE)
            IN  HeldAfter(HeldAfter(m, r), d)
    IN  Sections(Sections(Sections(Sections(m2, 1), 2), 3), 4)

InitLoaded == LoadedWith([l \in Leagues |-> AppDocument(l)], AppMountTime)

NextApp ==
    \/ \E t \in AppNowValues : Tick(t)
    \/ SelectAllLeagues
    \/ \E l \in Leagues : ToggleLeague(l)
    \/ \E l \in Leagues : \E f \in StatusFilters : SetStatusFilter(l, f)
    \/ \E l \in Leagues : \E q \in SearchTexts : SetSearchQuery(l, q)
    \/ \E l \in Leagues : PageChange(l)

SpecApp == InitLoaded /\ [][NextApp]_vars

(* --------------------------- the page buttons -------------------------- *)

\* the largest number of pages of a league section
MaxPagerPages == 10

\* the four documents with pages pages of La Liga, the last page of one
\* match, and no match of the other leagues
PagerDocument(pages) ==
    [l \in Leagues |->
        [ok |-> TRUE, shape |-> TRUE,
         matches |->
           IF l = "La Liga"
           THEN [i \in 1..(MATCHES_PER_PAGE * (pages - 1) + 1) |->
                   RawMatch(i, Stamp20, Team(1, "Real Madrid"),
                            Team(2, "Barcelona"))]
           ELSE <<>>]]

InitPager ==
    \E pages \in 1..MaxPagerPages :
        LoadedWith(PagerDocument(pages), AppMountTime)

NextPager ==
    \/ \E t \in AppNowValues : Tick(t)
    \/ \E l \in Leagues : PageChange(l)

SpecPager == InitPager /\ [][NextPager]_vars

(* ------------------------------ the claims ----------------------------- *)

Rank(st) == IF st = "UPCOMING" THEN 0 ELSE IF st = "LIVE" THEN 1 ELSE 2

\* the window of 110 minutes, in ms
Window == 110 * 60 * 1000

\* status st is the one the three half-open intervals give at instant t for a
\* kickoff at instant k
InWindow(st, t, k) ==
    /\ (st = "UPCOMING") <=> (t < k)
    /\ (st = "LIVE") <=> (k <= t /\ t < k + Window)
    /\ (st = "FINISHED") <=> (t >= k + Window)

\* every match with a valid kickoff of collection ms has the status of
\* instant t
AllInWindow(ms, t) ==
    \A i \in DOMAIN ms :
        ms[i].kickoff.valid => InWindow(ms[i].status, t, ms[i].kickoff.time)

\* the step is the commit of the ingestion
IsCommit == matches = <<>> /\ matches' # <<>>

\* the step is a tick of the refresher (only a tick reads the clock once
\* the effect has run)
IsTick == mounted /\ clock' # clock

C2_StatusNeverRegresses ==
    [][ \A i \in DOMAIN matches :
          /\ i \in DOMAIN matches'
          /\ Rank(matches'[i].status) >= Rank(matches[i].status) ]_vars

\* ticks have moved a match from the UPCOMING of its ingestion to FINISHED
C2_Witness ==
    \E i \in DOMAIN matches :
        /\ calculateStatus(now, matches[i].kickoff) = "UPCOMING"
        /\ matches[i].status = "FINISHED"

\* C3: the step in which the first of the four fetches fails on a mounted
\* view sets the error, clears loading and leaves the collection empty; and
\* once the error is set it stays set and the collection stays empty.
C3_AnyFailureFailsTheLoad ==
    [][ /\ (~cancelled /\ ~AnyRejected(entries) /\ AnyRejected(entries'))
            => (error' # Undefined /\ ~loading' /\ matches' = <<>>)
        /\ error # Undefined
            => (error' = error /\ ~loading' /\ matches' = <<>>) ]_vars

\* one fetch has failed after another had delivered matches, and a tick has
\* fired since
C3_Witness ==
    /\ error # Undefined
    /\ ~loading
    /\ matches = <<>>
    /\ clock > now.time
    /\ \E l \in Leagues : entries[l].state = "fulfilled"
    /\ \A l \in Leagues : entries[l].state # "pending"

\* C4: after the cleanup of the effect no step changes the collection, the
\* loading flag or the error, and no tick fires.
C4_NothingWrittenAfterTeardown ==
    [][ cancelled => /\ UNCHANGED <<matches, loading, error>>
                     /\ ~IsTick
                     /\ cancelled' ]_vars

\* all four fetches delivered after the teardown and nothing was committed
C4_Witness ==
    /\ cancelled
    /\ AllFulfilled(entries)
    /\ Flat(entries) # <<>>
    /\ matches = <<>>
    /\ loading
    /\ error = Undefined

\* C5: a match whose date or time does not parse into a valid instant is
\* never in the committed collection (the load ends in the error state or
\* the record is left out).
C5_NoInvalidKickoffCommitted ==
    \A i \in DOMAIN matches : matches[i].kickoff.valid

\* a.getTime() <= b.getTime()
KickoffLe(a, b) == a.valid /\ b.valid /\ a.time <= b.time

\* every FINISHED match of the list comes after every other match, and the
\* FINISHED matches and the other matches are each in non-decreasing order
\* of kickoff
FinishedLastOrdered(list) ==
    \A i, j \in DOMAIN list :
        i < j =>
          /\ list[i].status = "FINISHED" => list[j].status = "FINISHED"
          /\ ((list[i].status = "FINISHED") <=> (list[j].status = "FINISHED"))
               => KickoffLe(list[i].kickoff, list[j].kickoff)

\* the values selectedTeam takes: its initial value, the placeholder option
\* and the options of the dropdown
TeamSelections(ms) == {"Real Madrid", ""} \cup allTeams(ms)

\* C6: for every league selection and every selected team, the filtered
\* list, each group of groupedMatches and the team-spotlight list have their
\* FINISHED matches last and each of the two parts in non-decreasing order
\* of kickoff.
C6_DerivedListsFinishedLast ==
    /\ \A sel \in LeagueSelections :
          /\ FinishedLastOrdered(filtered(matches, sel))
          /\ LET groups == groupedMatches(filtered(matches, sel))
             IN  \A g \in DOMAIN groups : FinishedLastOrdered(groups[g][2])
    /\ \A team \in TeamSelections(matches) :
          FinishedLastOrdered(teamMatches(matches, team))

\* the fields of a match other than its status
Identity(m) ==
    [id |-> m.id, date |-> m.date, time |-> m.time, teams |-> m.teams,
     league |-> m.league, kickoff |-> m.kickoff]

Identities(ms) == [i \in DOMAIN ms |-> Identity(ms[i])]

\* C7: a step from a non-empty collection (a tick) keeps its length, its
\* order and every field but status of every match; and the only step that
\* puts matches into the empty collection is the commit of a load whose four
\* fetches were all fulfilled.
C7_TickChangesOnlyStatus ==
    [][ /\ matches # <<>> => Identities(matches') = Identities(matches)
        /\ IsTick => Len(matches') = Len(matches)
        /\ IsCommit => /\ loading /\ ~loading'
                       /\ AllFulfilled(entries')
                       /\ Identities(matches') = Identities(Flat(entries')) ]_vars

\* a tick has changed the status of one match of a collection of two and
\* left the status of the other
C7_Witness ==
    /\ Len(matches) = 2
    /\ clock > now.time
    /\ \E i, j \in DOMAIN matches :
          /\ matches[i].status # calculateStatus(now, matches[i].kickoff)
          /\ matches[j].status = calculateStatus(now, matches[j].kickoff)

\* C8 as stated: the refresher is started only once the ingestion has
\* succeeded, so no tick fires while the load is in progress or after it
\* has failed.
C8_TicksOnlyAfterSuccess ==
    [][ IsTick => (~loading /\ error = Undefined) ]_vars

\* C8 as amended: while the load is in progress and after it has failed the
\* collection is empty, every tick that fires then leaves it empty, and the
\* only step that makes it non-empty is the commit of the ingestion.
C8_TicksBeforeCommitWriteNothing ==
    [][ (loading \/ error # Undefined) =>
          /\ matches = <<>>
          /\ IsTick => matches' = <<>>
          /\ matches' # <<>> => (~loading' /\ error' = Undefined
                                  /\ AllFulfilled(entries')) ]_vars

\* a tick has fired while the load was still in progress
C8_Witness ==
    /\ timer
    /\ loading
    /\ error = Undefined
    /\ clock > now.time
    /\ matches = <<>>

\* C9: the statuses of a non-empty collection are those of one reference
\* instant, the one load() captured or the one the last tick captured; so
\* two matches with the same kickoff have the same status.
C9_OneReferenceInstant ==
    matches # <<>> =>
      /\ \E t \in {now.time, clock} :
            \A i \in DOMAIN matches :
                matches[i].status
                  = calculateStatus(DateOf(t), matches[i].kickoff)
      /\ \A i, j \in DOMAIN matches :
            matches[i].kickoff = matches[j].kickoff
              => matches[i].status = matches[j].status

\* two matches of one document with the same valid kickoff, committed
C9_Witness ==
    \E i, j \in DOMAIN matches :
        /\ i # j
        /\ matches[i].league = matches[j].league
        /\ matches[i].kickoff.valid
        /\ matches[i].kickoff = matches[j].kickoff
        /\ matches[i].status = "LIVE"

\* the matches of the collection that carry the league tag
TaggedWith(ms, league) ==
    LET Has(m) == m.league = league
    IN  SelectSeq(ms, Has)

\* C10: the committed collection is the concatenation of the matches of
\* Premier League, La Liga, Bundesliga and Serie A in this order, each
\* league's part being the matches fetched for it in the order of its
\* document (ids 1, 2, .. in source order).
C10_CommitInLeagueOrder ==
    matches # <<>> =>
      /\ Identities(matches)
           = Identities(entries["Premier League"].list)
               \o Identities(entries["La Liga"].list)
               \o Identities(entries["Bundesliga"].list)
               \o Identities(entries["Serie A"].list)
      /\ matches = TaggedWith(matches, "Premier League")
                     \o TaggedWith(matches, "La Liga")
                     \o TaggedWith(matches, "Bundesliga")
                     \o TaggedWith(matches, "Serie A")
      /\ \A l \in Leagues :
            /\ Len(TaggedWith(matches, l)) = Len(entries[l].list)
            /\ \A i \in DOMAIN TaggedWith(matches, l) :
                  TaggedWith(matches, l)[i].id = i

\* matches of two leagues, committed
C10_Witness ==
    /\ Len(matches) = 2
    /\ matches[1].league = "La Liga"
    /\ matches[2].league = "Serie A"

\* C11: a step that changes the league selection, or the status filter or the
\* search text of a league, ends with the page of that league at 1, whatever
\* page it was on before
C11_FilterChangeResetsPage ==
    [][\A l \in Leagues :
          (\/ selectedLeagues' # selectedLeagues
           \/ leagueStatusFilters'[l] # leagueStatusFilters[l]
           \/ leagueSearchQueries'[l] # leagueSearchQueries[l])
          => leaguePages'[l] = 1]_vars

\* a league of more than one page is shown on its first page under a status
\* filter and a search text that are not the initial ones
C11_Witness ==
    \E l \in Leagues :
        /\ Displayed(l)
        /\ leagueStatusFilters[l] # "ALL"
        /\ trim(leagueSearchQueries[l]) # <<>>
        /\ totalPagesOf(l) > 1
        /\ currentPageOf(l) = 1

\* the elements of s with the 0-based indices from..to, in order
IndicesFromTo(s, from, to) ==
    [i \in 1..(IF to < from THEN 0 ELSE to - from + 1) |-> s[from + i]]

Min(a, b) == IF a < b THEN a ELSE b

\* the pages of a league section agree with the arithmetic of the claim
PagesAsCounted(l) ==
    LET refined == filteredMatchesOf(l)
        n == Len(refined)
        p == currentPageOf(l)
        T == totalPagesOf(l)
    IN  /\ MATCHES_PER_PAGE * T >= n
        /\ MATCHES_PER_PAGE * (T - 1) < n
        /\ displayMatchesOf(l) =
             IndicesFromTo(refined, MATCHES_PER_PAGE * (p - 1),
                           Min(MATCHES_PER_PAGE * p, n) - 1)
        /\ (p = 1 /\ n > 0) => Len(displayMatchesOf(l)) > 0

\* C12: for the refined list of n matches of a displayed league the number
\* of pages is ceil(n / 6) and page p shows the elements with indices
\* 6(p-1) .. min(6p, n)-1 in order; page 1, the page a change of the search
\* text leads to, is not empty when n > 0
C12_PageCountAndSlice ==
    \A l \in Leagues : Displayed(l) => PagesAsCounted(l)

\* a league whose search text leaves seven matches is on its second page,
\* which shows the one match after the first six
C12_Witness ==
    \E l \in Leagues :
        /\ Displayed(l)
        /\ trim(leagueSearchQueries[l]) # <<>>
        /\ Len(filteredMatchesOf(l)) = MATCHES_PER_PAGE + 1
        /\ totalPagesOf(l) = 2
        /\ currentPageOf(l) = 2
        /\ displayMatchesOf(l) = <<filteredMatchesOf(l)[MATCHES_PER_PAGE + 1]>>

\* the status filter f accepts the match
StatusAccepts(f, match) == f = "ALL" \/ match.status = f

\* needle occurs in hay as a run of consecutive characters
IsSubstring(needle, hay) ==
    \E start \in 1..(Len(hay) + 1) :
        \A k \in 1..Len(needle) :
            /\ start + k - 1 <= Len(hay)
            /\ hay[start + k - 1] = needle[k]

\* the search text accepts the match
SearchAccepts(text, match) ==
    \/ \A i \in DOMAIN text : text[i] = " "
    \/ IsSubstring(toLowerCase(trim(text)),
                   toLowerCase(Chars(match.teams.home.name)))
    \/ IsSubstring(toLowerCase(trim(text)),
                   toLowerCase(Chars(match.teams.away.name)))

\* refined holds the elements of ms that satisfy Accepts, each once, in the
\* order of ms (the elements of ms are distinct)
ExactlyInOrder(refined, ms, Accepts(_)) ==
    /\ { refined[i] : i \in DOMAIN refined }
         = { ms[k] : k \in { j \in DOMAIN ms : Accepts(ms[j]) } }
    /\ Len(refined) = Cardinality({ j \in DOMAIN ms : Accepts(ms[j]) })
    /\ \A i, j \in DOMAIN refined :
          i < j => \E a, b \in DOMAIN ms :
                      a < b /\ ms[a] = refined[i] /\ ms[b] = refined[j]

\* C13: the refined list of a league holds exactly the matches of the league
\* that satisfy the status filter (ALL every status, LIVE only LIVE,
\* FINISHED only FINISHED) and the search (empty or blank text every match,
\* else the trimmed lower-cased text is a substring of the lower-cased home
\* or away name), in the order of the input
C13_RefinedIsStatusAndSearch ==
    \A l \in Leagues :
        LET ms == GroupOf(filtered(matches, selectedLeagues), l)
            Accepts(match) ==
                /\ StatusAccepts(leagueStatusFilters[l], match)
                /\ SearchAccepts(leagueSearchQueries[l], match)
        IN  ExactlyInOrder(getFilteredLeagueMatches(l, ms), ms, Accepts)

\* under a status filter and a search text a league keeps some matches,
\* drops one for its status alone and one for its team names alone
C13_Witness ==
    \E l \in Leagues :
        LET ms == GroupOf(filtered(matches, selectedLeagues), l)
        IN  /\ Displayed(l)
            /\ leagueStatusFilters[l] # "ALL"
            /\ trim(leagueSearchQueries[l]) # <<>>
            /\ Len(filteredMatchesOf(l)) > 1
            /\ \E i, j \in DOMAIN ms :
                  /\ ~StatusAccepts(leagueStatusFilters[l], ms[i])
                  /\ SearchAccepts(leagueSearchQueries[l], ms[i])
                  /\ StatusAccepts(leagueStatusFilters[l], ms[j])
                  /\ ~SearchAccepts(leagueSearchQueries[l], ms[j])

\* the matches of the collection in which the team is home or away
PlayedBy(ms, team) ==
    { ms[i] : i \in { j \in DOMAIN ms : \/ ms[j].teams.home.name = team
                                        \/ ms[j].teams.away.name = team } }

\* C14: for every team that can be selected, under any league selection, the
\* spotlight list holds min(4, k) of the k matches of the whole collection
\* the team plays in, each once, ordered by the finished-last rule, and no
\* match left out comes before one that is shown; it is empty when no team
\* is selected
C14_SpotlightFirstFour ==
    \A team \in TeamSelections(matches) :
        LET list == teamMatches(matches, team)
            played == PlayedBy(matches, team)
            shown == { list[i] : i \in DOMAIN list }
        IN  /\ team = "" => list = <<>>
            /\ Len(list) <= 4
            /\ team # "" =>
                 /\ Len(list) = Min(4, Cardinality(played))
                 /\ Cardinality(shown) = Len(list)
                 /\ shown \subseteq played
                 /\ FinishedLastOrdered(list)
                 /\ \A e \in shown : \A x \in played \ shown :
                       FinishedLastOrdered(<<e, x>>)

CanonicalOrder == <<"Premier League", "La Liga", "Bundesliga", "Serie A">>

CanonicalIndex(league) ==
    CHOOSE i \in DOMAIN CanonicalOrder : CanonicalOrder[i] = league

\* groups partitions filt by league, keeps the leagues that have a match, and
\* lists them in the canonical order
PartitionsByLeague(groups, filt) ==
    /\ \A i \in DOMAIN filt :
          /\ \E g \in DOMAIN groups :
                /\ groups[g][1] = filt[i].league
                /\ \E j \in DOMAIN groups[g][2] : groups[g][2][j] = filt[i]
          /\ \A g \in DOMAIN groups :
                (\E j \in DOMAIN groups[g][2] : groups[g][2][j] = filt[i])
                  => groups[g][1] = filt[i].league
    /\ \A g \in DOMAIN groups :
          /\ Len(groups[g][2]) > 0
          /\ Len(groups[g][2])
               = Cardinality({ i \in DOMAIN filt : filt[i].league = groups[g][1] })
          /\ \A j \in DOMAIN groups[g][2] :
                \E i \in DOMAIN filt : filt[i] = groups[g][2][j]
    /\ \A league \in Leagues :
          (\E i \in DOMAIN filt : filt[i].league = league)
            <=> (\E g \in DOMAIN groups : groups[g][1] = league)
    /\ \A g, h \in DOMAIN groups :
          g < h => CanonicalIndex(groups[g][1]) < CanonicalIndex(groups[h][1])

\* C15: for every league selection the groups partition the filtered list:
\* every match is in exactly one group, that of its league; a league has a
\* group if and only if it has a match in the filtered list; and the groups
\* are in the order Premier League, La Liga, Bundesliga, Serie A
C15_GroupsPartitionInCanonicalOrder ==
    \A sel \in LeagueSelections :
        PartitionsByLeague(groupedMatches(filtered(matches, sel)),
                           filtered(matches, sel))

\* the filtered list of all leagues has a match of a later league before a
\* match of an earlier league, and there are two groups
C15_Witness ==
    LET filt == filtered(matches, {"ALL"})
    IN  /\ Len(filt) = 2
        /\ CanonicalIndex(filt[1].league) > CanonicalIndex(filt[2].league)
        /\ Len(groupedMatches(filt)) = 2
        /\ groupedMatches(filt)[1][2] = <<filt[2]>>

\* the league section shows a Pagination
PaginationShown(l) ==
    /\ Displayed(l)
    /\ Len(filteredMatchesOf(l)) > 0
    /\ totalPagesOf(l) > 1

\* the page-number list the claim gives for (cp, tp)
PageListOfClaim(cp, tp) ==
    IF tp <= 7 THEN [i \in 1..tp |-> i]
    ELSE IF cp <= 4 THEN <<1, 2, 3, 4, 5, Ellipsis, tp>>
    ELSE IF cp >= tp - 3
         THEN <<1, Ellipsis, tp - 4, tp - 3, tp - 2, tp - 1, tp>>
    ELSE <<1, Ellipsis, cp - 1, cp, cp + 1, Ellipsis, tp>>

\* the list holds first, last and current page, and its page numbers are
\* strictly increasing
PageListWellFormed(list, cp, tp) ==
    /\ \A page \in {1, cp, tp} : \E i \in DOMAIN list : list[i] = page
    /\ \A i, j \in DOMAIN list :
          (i < j /\ list[i] # Ellipsis /\ list[j] # Ellipsis)
            => list[i] < list[j]

\* C16: for every Pagination shown, with 1 <= currentPage <= totalPages, the
\* page-number list is all pages when totalPages <= 7; else 1..5, ellipsis,
\* last when currentPage <= 4; first, ellipsis, the last five when
\* currentPage >= totalPages - 3; first, ellipsis, currentPage-1 ..
\* currentPage+1, ellipsis, last in between; it holds page 1, the last and
\* the current page, and its page numbers are strictly increasing
C16_VisiblePages ==
    \A l \in Leagues :
        (/\ PaginationShown(l)
         /\ 1 <= currentPageOf(l)
         /\ currentPageOf(l) <= totalPagesOf(l))
        => /\ getVisiblePages(currentPageOf(l), totalPagesOf(l))
                = PageListOfClaim(currentPageOf(l), totalPagesOf(l))
           /\ PageListWellFormed(
                getVisiblePages(currentPageOf(l), totalPagesOf(l)),
                currentPageOf(l), totalPagesOf(l))

\* a Pagination of more than 8 pages is on a page between the two edges
C16_Witness ==
    \E l \in Leagues :
        /\ PaginationShown(l)
        /\ totalPagesOf(l) > 8
        /\ currentPageOf(l) > 4
        /\ currentPageOf(l) < totalPagesOf(l) - 3
        /\ Len(getVisiblePages(currentPageOf(l), totalPagesOf(l))) = 7

\* C17: deriving the views (filtered list, spotlight, groups, refined lists,
\* page slices) for any selected team leaves the match collection as it was:
\* the same matches in the same order with the same fields; the views on
\* array objects are the views of the App
C17_ViewsLeaveCollection ==
    \A team \in TeamSelections(matches) :
        /\ MatchesAfterViews(matches, team) = matches
        /\ filteredArray(StateArray(matches), selectedLeagues).items
             = filtered(matches, selectedLeagues)
        /\ teamMatchesArray(StateArray(matches), team).items
             = teamMatches(matches, team)

\* the filtered list of all leagues holds the matches of the collection in
\* another order: a sort of the collection itself would show
C17_Witness ==
    /\ selectedLeagues = {"ALL"}
    /\ Len(filtered(matches, selectedLeagues)) = Len(matches)
    /\ filtered(matches, selectedLeagues) # matches
    /\ \E l \in Leagues : currentPageOf(l) > 1

\* C18: in every reachable state, for every displayed league whose refined
\* list has n > 0 matches, the current page p satisfies 1 <= p <= ceil(n / 6)
\* and the page slice shown is not empty, also after a tick has shrunk a
\* status-filtered list
C18_PageWithinRange ==
    \A l \in Leagues :
        (Displayed(l) /\ Len(filteredMatchesOf(l)) > 0)
        => /\ 1 <= currentPageOf(l)
           /\ MATCHES_PER_PAGE * (currentPageOf(l) - 1) < Len(filteredMatchesOf(l))
           /\ displayMatchesOf(l) # <<>>

\* the selection is not empty and holds ALL only as {ALL}
SelectionWellFormed(sel) ==
    /\ sel # {}
    /\ sel \subseteq Leagues \cup {"ALL"}
    /\ "ALL" \in sel => sel = {"ALL"}

\* C19: from {ALL}, after any clicks on the all-leagues button and the four
\* league buttons, the league selection is never empty and holds ALL only
\* when it is {ALL}; a change of it toggles a league on and removes ALL,
\* toggles a league off and leaves the others, or yields {ALL} (the click on
\* ALL, or the last league toggled off)
C19_SelectionNeverEmpty ==
    [][/\ SelectionWellFormed(selectedLeagues)
       /\ SelectionWellFormed(selectedLeagues')
       /\ selectedLeagues' # selectedLeagues =>
            \/ \E l \in Leagues \ selectedLeagues :
                  selectedLeagues' = (selectedLeagues \ {"ALL"}) \cup {l}
            \/ \E l \in Leagues \cap selectedLeagues :
                  /\ selectedLeagues \ {l} # {}
                  /\ selectedLeagues' = selectedLeagues \ {l}
            \/ selectedLeagues' = {"ALL"}]_vars

\* three leagues are selected, without ALL
C19_Witness ==
    /\ Cardinality(selectedLeagues) = 3
    /\ "ALL" \notin selectedLeagues

AllValidFinished ==
    \A i \in DOMAIN matches :
        matches[i].kickoff.valid => matches[i].status = "FINISHED"

\* the load has succeeded on a mounted view whose refresher runs, and the
\* clock has a later instant to advance to
LoadedAndTicking ==
    /\ mounted
    /\ ~cancelled
    /\ timer
    /\ ~loading
    /\ error = Undefined
    /\ clock <= LastNowValue

\* C20: after a successful load on a mounted view, with the tick taken
\* whenever it stays possible and the clock advancing, every match with a
\* valid kickoff is eventually FINISHED, unless the view is unmounted; and a
\* match that is FINISHED is FINISHED in every later state
C20_EventuallyAllFinished ==
    /\ LoadedAndTicking ~> (AllValidFinished \/ cancelled)
    /\ [][\A i \in DOMAIN matches :
            (i \in DOMAIN matches' /\ matches[i].status = "FINISHED")
              => matches'[i].status = "FINISHED"]_vars

\* a match that was loaded before the end of its window has become FINISHED
\* on the mounted view, with every other match of a valid kickoff
C20_Witness ==
    /\ LoadedAndTicking
    /\ AllValidFinished
    /\ \E i \in DOMAIN matches :
          /\ matches[i].kickoff.valid
          /\ calculateStatus(now, matches[i].kickoff) # "FINISHED"

====
